---- MODULE Spec2Model ----
(***************************************************************************)
(* Model of the two-player "primes and composites" card game               *)
(* (Game.py, Player.py, GameState.py): dealing, move-table construction,   *)
(* payoff scoring, turn application, the simulate loop with the random,    *)
(* greedy and minimax strategies, and the alpha-beta minimax recursion     *)
(* with its snapshot / rollback discipline.                                *)
(*                                                                         *)
(* Python sets of small non-negative integers iterate in ascending order   *)
(* in CPython (hash(i) = i, no collisions below the table size), so        *)
(* list(self.table), hand_list() and "for c in cards" are modelled as      *)
(* ascending traversals.  A dict is modelled as the sequence of its        *)
(* (key, value) items in insertion order.                                  *)
(***************************************************************************)
EXTENDS Integers, Sequences, FiniteSets, TLC

\* ------------------------------------------------------------------ bounds
MaxHand == 2
MaxTable == 2
MaxCards == 5
MaxDepth == 2
\* simulate() does not terminate when minimax runs with depth 0 (the empty
\* move is applied for ever): the turn counter is capped in MinimaxPlay.
MaxTurn == 2 * MaxHand + 2

\* ------------------------------------------------------- program constants
A == 0
B == 1
PRIME_SCORE == 2
COMPOSITE_SCORE == 1
RANDOM == "random"
GREEDY == "greedy"
MINIMAX == "minimax"
\* float("+inf") / float("-inf"): larger in magnitude than any payoff sum
PosInf == 1000
NegInf == -PosInf

VARIABLES
  num_cards, num_hand, num_table, change_first, depth,  \* Game.__init__ arguments
  strategies,      \* simulate()'s argument: strategy of A and of B
  pc,              \* control location of the driver
  turn, u, first, current,
  players,         \* players[A], players[B]: [hand, primes, composites]
  table,           \* set of cards
  playable_sets,   \* the move table: sequence of [k |-> card set, v |-> payoff]
  turn_payoffs,    \* u after every turn of simulate
  play, payoff,    \* the move and payoff a strategy returned to simulate
  winner,          \* simulate's returned winner
  game_states,     \* minimax's list of GameState snapshots
  frames           \* activation records of the minimax recursion

cfgvars == <<num_cards, num_hand, num_table, change_first, depth, strategies>>
gamevars == <<turn, u, first, current, players, table, playable_sets>>
vars == <<num_cards, num_hand, num_table, change_first, depth, strategies, pc,
          turn, u, first, current, players, table, playable_sets,
          turn_payoffs, play, payoff, winner, game_states, frames>>

\* ----------------------------------------------------------------- helpers
\* util.is_prime
IsPrime(n) == n > 1 /\ \A d \in 2..(n - 1) : n % d # 0

Min(S) == CHOOSE x \in S : \A y \in S : x <= y

RECURSIVE SortedSeq(_)
\* list(s) for a set s of small integers
SortedSeq(S) == IF S = {} THEN <<>> ELSE <<Min(S)>> \o SortedSeq(S \ {Min(S)})

\* list.remove / list.pop(index(card)): drop the first occurrence of card
RemoveFromSeq(s, card) == SelectSeq(s, LAMBDA x : x # card)

SeqToSet(s) == {s[i] : i \in 1..Len(s)}

Other(p) == (p + 1) % 2

\* ------------------------------------------------------------------ Player
NewPlayer == [hand |-> {}, primes |-> <<>>, composites |-> <<>>]

AddHand(p, card) == [p EXCEPT !.hand = @ \cup {card}]
\* mutant: the played card stays in the hand
RemoveHandNoop(p, card) == p
RemoveHand(p, card) == [p EXCEPT !.hand = @ \ {card}]
IsHandEmpty(p) == Cardinality(p.hand) = 0
CanPlayMove(p, move) == Cardinality(p.hand \cap move) # 0

PrimeContains(p, card) == card \in SeqToSet(p.primes)
CompositeContains(p, card) == card \in SeqToSet(p.composites)
RemovePrime(p, card) ==
  IF PrimeContains(p, card) THEN [p EXCEPT !.primes = RemoveFromSeq(@, card)] ELSE p
RemoveComposite(p, card) ==
  IF CompositeContains(p, card) THEN [p EXCEPT !.composites = RemoveFromSeq(@, card)] ELSE p
AddPrime(p, card) == [p EXCEPT !.primes = Append(@, card)]
AddComposite(p, card) == [p EXCEPT !.composites = Append(@, card)]
\* mutant: index 0 for index -1, the first card of the stack
ObtainFirstPrime(p) == IF Len(p.primes) # 0 THEN p.primes[1] ELSE -1
ObtainLastPrime(p) == IF Len(p.primes) # 0 THEN p.primes[Len(p.primes)] ELSE -1
ObtainLastComposite(p) ==
  IF Len(p.composites) # 0 THEN p.composites[Len(p.composites)] ELSE -1

AddStacks(p, card) ==
  IF IsPrime(card)
  THEN AddPrime(IF PrimeContains(p, card) THEN RemovePrime(p, card) ELSE p, card)
  ELSE AddComposite(IF CompositeContains(p, card) THEN RemoveComposite(p, card) ELSE p, card)

RemoveStacks(p, card) ==
  IF IsPrime(card) /\ PrimeContains(p, card) THEN RemovePrime(p, card)
  ELSE IF ~IsPrime(card) /\ CompositeContains(p, card) THEN RemoveComposite(p, card)
  ELSE p

\* -------------------------------------------------------------------- Game
\* mutant: "or" for "and"
IsOverEither(g) == IsHandEmpty(g.players[A]) \/ IsHandEmpty(g.players[B])

\* is_over, on a game record g = [players, table, u, turn, current, first,
\* playable_sets]
IsOver(g) == IsHandEmpty(g.players[A]) /\ IsHandEmpty(g.players[B])

\* mutant: ">=" for ">"
GetWinnerNoTie(g) ==
  IF g.u >= 0 THEN g.first
  ELSE IF g.u < 0 THEN (g.first + 1) % 2
  ELSE -1

\* get_winner
GetWinner(g) ==
  IF g.u > 0 THEN g.first
  ELSE IF g.u < 0 THEN (g.first + 1) % 2
  ELSE -1

\* mutant: the "% == 0" tests of the two divisions are dropped
FindPlayableCardsFloorDiv(c1, c2) ==
  LET absd == IF c1 >= c2 THEN c1 - c2 ELSE c2 - c1
  IN  (IF c1 + c2 > 1 /\ c1 + c2 < num_cards + 2 THEN <<c1 + c2>> ELSE <<>>)
   \o (IF absd > 1 /\ absd < num_cards + 2 THEN <<absd>> ELSE <<>>)
   \o (IF c1 * c2 > 1 /\ c1 * c2 < num_cards + 2 THEN <<c1 * c2>> ELSE <<>>)
   \o (IF c1 \div c2 > 1 /\ c1 \div c2 < num_cards + 2 THEN <<c1 \div c2>> ELSE <<>>)
   \o (IF c2 \div c1 > 1 /\ c2 \div c1 < num_cards + 2 THEN <<c2 \div c1>> ELSE <<>>)

\* find_playable_cards
FindPlayableCards(c1, c2) ==
  LET absd == IF c1 >= c2 THEN c1 - c2 ELSE c2 - c1
  IN  (IF c1 + c2 > 1 /\ c1 + c2 < num_cards + 2 THEN <<c1 + c2>> ELSE <<>>)
   \o (IF absd > 1 /\ absd < num_cards + 2 THEN <<absd>> ELSE <<>>)
   \o (IF c1 * c2 > 1 /\ c1 * c2 < num_cards + 2 THEN <<c1 * c2>> ELSE <<>>)
   \o (IF (c1 \div c2 > 1 /\ c1 \div c2 < num_cards + 2) /\ c1 % c2 = 0
       THEN <<c1 \div c2>> ELSE <<>>)
   \o (IF (c2 \div c1 > 1 /\ c2 \div c1 < num_cards + 2) /\ c2 % c1 = 0
       THEN <<c2 \div c1>> ELSE <<>>)

\* mutant: the "stolen" test is an elif of the "obtained" tests
CardPayoffOneLeg(g, c) ==
  LET p1 == g.players[g.current]
      p2 == g.players[Other(g.current)]
      is_pr == IsPrime(c)
  IN  IF is_pr /\ ~PrimeContains(p1, c) THEN PRIME_SCORE
      ELSE IF ~is_pr /\ ~CompositeContains(p1, c) THEN COMPOSITE_SCORE
      ELSE IF is_pr /\ PrimeContains(p2, c) THEN PRIME_SCORE
      ELSE IF ~is_pr /\ CompositeContains(p2, c) THEN COMPOSITE_SCORE
      ELSE 0

\* calculate_move_payoff, for the current player of g
CardPayoff(g, c) ==
  LET p1 == g.players[g.current]
      p2 == g.players[Other(g.current)]
      is_pr == IsPrime(c)
      obtained == IF is_pr /\ ~PrimeContains(p1, c) THEN PRIME_SCORE
                  ELSE IF ~is_pr /\ ~CompositeContains(p1, c) THEN COMPOSITE_SCORE
                  ELSE 0
      stolen == IF is_pr /\ PrimeContains(p2, c) THEN PRIME_SCORE
                ELSE IF ~is_pr /\ CompositeContains(p2, c) THEN COMPOSITE_SCORE
                ELSE 0
  IN  obtained + stolen

RECURSIVE SumPayoff(_, _)
SumPayoff(g, cs) ==
  IF cs = <<>> THEN 0 ELSE CardPayoff(g, Head(cs)) + SumPayoff(g, Tail(cs))

CalculateMovePayoff(g, card_set) ==
  IF Cardinality(card_set) # 3 THEN 0 ELSE SumPayoff(g, SortedSeq(card_set))

\* mutant: the len(s) == 3 test is dropped
TriplesOfPairNoFilter(c1, c2) ==
  LET pcs == FindPlayableCards(c1, c2)
  IN  [n \in 1..Len(pcs) |-> {c1, c2, pcs[n]}]

\* the 3-card sets of one table pair, in find_playable_cards order
TriplesOfPair(c1, c2) ==
  LET pcs == FindPlayableCards(c1, c2)
  IN  SelectSeq([n \in 1..Len(pcs) |-> {c1, c2, pcs[n]}],
                LAMBDA s : Cardinality(s) = 3)

RECURSIVE TriplesFrom(_, _, _)
\* the nested loops over i < j of find_playable_sets
TriplesFrom(tl, i, j) ==
  IF i > Len(tl) THEN <<>>
  ELSE IF j > Len(tl) THEN TriplesFrom(tl, i + 1, i + 2)
  ELSE TriplesOfPair(tl[i], tl[j]) \o TriplesFrom(tl, i, j + 1)

RECURSIVE DictKeys(_, _)
\* keys of a dict after inserting ks in order: a repeated key keeps its place
DictKeys(ks, seen) ==
  IF ks = <<>> THEN <<>>
  ELSE IF Head(ks) \in seen THEN DictKeys(Tail(ks), seen)
  ELSE <<Head(ks)>> \o DictKeys(Tail(ks), seen \cup {Head(ks)})

\* mutant: the loop over the hand is dropped
FindPlayableSetsNoSingletons(g) ==
  LET keys == DictKeys(TriplesFrom(SortedSeq(g.table), 1, 2), {})
  IN  [n \in 1..Len(keys) |-> [k |-> keys[n], v |-> CalculateMovePayoff(g, keys[n])]]

\* find_playable_sets: the new move table of g
FindPlayableSets(g) ==
  LET keys == DictKeys(TriplesFrom(SortedSeq(g.table), 1, 2), {})
      hl == SortedSeq(g.players[g.current].hand)
  IN  [n \in 1..Len(keys) |-> [k |-> keys[n], v |-> CalculateMovePayoff(g, keys[n])]]
   \o [n \in 1..Len(hl) |-> [k |-> {hl[n]}, v |-> 0]]

RECURSIVE RemovePlayedOwnOnly(_, _, _, _)
\* mutant: the captured cards are not removed from the opponent's stacks
RemovePlayedOwnOnly(ps, cur, cs, three) ==
  IF cs = <<>> THEN ps
  ELSE LET c == Head(cs)
           p1 == IF three THEN RemoveStacks(ps[cur], c) ELSE ps[cur]
           ps2 == [ps EXCEPT ![cur] = RemoveHand(p1, c)]
       IN  RemovePlayedOwnOnly(ps2, cur, Tail(cs), three)

RECURSIVE RemovePlayed(_, _, _, _)
\* first loop of update_players: drop each played card from both players'
\* stacks (captures only) and from the current player's hand
RemovePlayed(ps, cur, cs, three) ==
  IF cs = <<>> THEN ps
  ELSE LET c == Head(cs)
           p1 == IF three THEN RemoveStacks(ps[cur], c) ELSE ps[cur]
           p2 == IF three THEN RemoveStacks(ps[Other(cur)], c) ELSE ps[Other(cur)]
           ps2 == [ps EXCEPT ![cur] = RemoveHand(p1, c), ![Other(cur)] = p2]
       IN  RemovePlayed(ps2, cur, Tail(cs), three)

RECURSIVE AddPlayed(_, _)
\* second loop of update_players: push the captured cards on p1's stacks
AddPlayed(p, cs) ==
  IF cs = <<>> THEN p ELSE AddPlayed(AddStacks(p, Head(cs)), Tail(cs))

\* mutant: the len(cards) == 3 tests are dropped, every played card goes
\* through the stacks
UpdatePlayersAlwaysStacks(g, cards) ==
  LET p1 == g.players[g.current]
      last_prime == ObtainLastPrime(p1)
      last_composite == ObtainLastComposite(p1)
      t1 == IF last_prime # -1 /\ last_prime \in g.table
            THEN g.table \ {last_prime} ELSE g.table
      t2 == IF last_composite # -1 /\ last_composite \in t1
            THEN t1 \ {last_composite} ELSE t1
      cs == SortedSeq(cards)
      three == TRUE
      ps1 == RemovePlayed(g.players, g.current, cs, three)
      ps2 == IF three THEN [ps1 EXCEPT ![g.current] = AddPlayed(@, cs)] ELSE ps1
  IN  [g EXCEPT !.players = ps2, !.table = t2]

\* update_players
UpdatePlayers(g, cards) ==
  LET p1 == g.players[g.current]
      last_prime == ObtainLastPrime(p1)
      last_composite == ObtainLastComposite(p1)
      t1 == IF last_prime # -1 /\ last_prime \in g.table
            THEN g.table \ {last_prime} ELSE g.table
      t2 == IF last_composite # -1 /\ last_composite \in t1
            THEN t1 \ {last_composite} ELSE t1
      cs == SortedSeq(cards)
      three == Cardinality(cards) = 3
      ps1 == RemovePlayed(g.players, g.current, cs, three)
      ps2 == IF three THEN [ps1 EXCEPT ![g.current] = AddPlayed(@, cs)] ELSE ps1
  IN  [g EXCEPT !.players = ps2, !.table = t2]

\* the cards obtain_last_prime / obtain_last_composite return for p (no -1)
LastCards(p) == {c \in {ObtainLastPrime(p), ObtainLastComposite(p)} : c # -1}

\* mutant: a discarded card is not added to the table
UpdateTableNoDiscard(g, cards) ==
  LET p1 == g.players[g.current]
      p2 == g.players[Other(g.current)]
  IN  [g EXCEPT !.table = (@ \ cards) \cup LastCards(p1) \cup LastCards(p2)]

\* mutant: the last cards of the stacks are not put back on the table
UpdateTableNoLastCards(g, cards) ==
  [g EXCEPT !.table = IF Cardinality(cards) # 3 THEN @ \cup cards ELSE @ \ cards]

\* update_table
UpdateTable(g, cards) ==
  LET p1 == g.players[g.current]
      p2 == g.players[Other(g.current)]
      t1 == IF Cardinality(cards) # 3 THEN g.table \cup cards ELSE g.table \ cards
  IN  [g EXCEPT !.table = t1 \cup LastCards(p1) \cup LastCards(p2)]

\* mutant: the payoff is added whoever moves
AdvanceAlwaysAdds(g, pay) ==
  LET g1 == [g EXCEPT !.u = @ + pay,
                      !.turn = @ + 1,
                      !.current = IF @ = A THEN B ELSE A]
  IN  [g1 EXCEPT !.playable_sets = FindPlayableSets(g1)]

\* mutant: the move table is rebuilt before the active player is flipped
AdvanceRebuildBeforeFlip(g, pay) ==
  LET gain == IF g.first = g.current THEN 1 ELSE -1
      g1 == [g EXCEPT !.u = @ + gain * pay, !.turn = @ + 1]
      g2 == [g1 EXCEPT !.playable_sets = FindPlayableSets(g1)]
  IN  [g2 EXCEPT !.current = IF @ = A THEN B ELSE A]

\* the assignments of update() / of simulate's loop body after the table update
Advance(g, pay) ==
  LET gain == IF g.first = g.current THEN 1 ELSE -1
      g1 == [g EXCEPT !.u = @ + gain * pay,
                      !.turn = @ + 1,
                      !.current = IF @ = A THEN B ELSE A]
  IN  [g1 EXCEPT !.playable_sets = FindPlayableSets(g1)]

\* update
Update(g, move, pay) == Advance(UpdateTable(UpdatePlayers(g, move), move), pay)

\* GameState.__init__: deep copies of the mutable parts, the scalars by value
GameStateInit(g, played_set, played_payoff) ==
  [players |-> g.players, table |-> g.table, u |-> g.u, turn |-> g.turn,
   current |-> g.current, playable_sets |-> g.playable_sets,
   played_set |-> played_set, played_payoff |-> played_payoff]

\* mutant: the table is not restored
RollbackKeepsTable(g, gs) ==
  [g EXCEPT !.players = gs.players, !.u = gs.u,
            !.turn = gs.turn, !.current = gs.current,
            !.playable_sets = gs.playable_sets]

\* mutant: the move table is not restored
RollbackKeepsMoveTable(g, gs) ==
  [g EXCEPT !.players = gs.players, !.table = gs.table, !.u = gs.u,
            !.turn = gs.turn, !.current = gs.current]

\* rollback
Rollback(g, gs) ==
  [g EXCEPT !.players = gs.players, !.table = gs.table, !.u = gs.u,
            !.turn = gs.turn, !.current = gs.current,
            !.playable_sets = gs.playable_sets]

\* ------------------------------------------------------------ construction
RECURSIVE DealSameCard(_, _, _)
\* mutant: both players are dealt the card on top
DealSameCard(ps, cards, nh) ==
  IF nh = 0 THEN [players |-> ps, table |-> SeqToSet(cards)]
  ELSE LET n == Len(cards)
           ps1 == [ps EXCEPT ![A] = AddHand(@, cards[n]), ![B] = AddHand(@, cards[n])]
       IN  DealSameCard(ps1, SubSeq(cards, 1, n - 2), nh - 1)

\* deal_cards on the shuffled list cards: pop() takes the last element
RECURSIVE Deal(_, _, _)
Deal(ps, cards, nh) ==
  IF nh = 0 THEN [players |-> ps, table |-> SeqToSet(cards)]
  ELSE LET n == Len(cards)
           ps1 == [ps EXCEPT ![A] = AddHand(@, cards[n]), ![B] = AddHand(@, cards[n - 1])]
       IN  Deal(ps1, SubSeq(cards, 1, n - 2), nh - 1)

\* rand.shuffle(list(range(2, num_cards + 2))): every order of the cards
Shuffles(n) == {[i \in 1..n |-> p[i] + 1] : p \in Permutations(1..n)}

\* the game record of the current state
Game == [players |-> players, table |-> table, u |-> u, turn |-> turn,
         current |-> current, first |-> first, playable_sets |-> playable_sets]

SetGame(g) ==
  /\ players' = g.players
  /\ table' = g.table
  /\ u' = g.u
  /\ turn' = g.turn
  /\ current' = g.current
  /\ first' = g.first
  /\ playable_sets' = g.playable_sets

Strategies == {RANDOM, GREEDY, MINIMAX}

\* before the constructor runs: only its arguments exist
Init ==
  /\ num_hand \in 0..MaxHand
  /\ num_table \in 0..MaxTable
  /\ num_cards \in 0..MaxCards
  /\ change_first \in BOOLEAN
  /\ depth \in 0..MaxDepth
  /\ strategies \in [{A, B} -> Strategies]
  /\ pc = "new"
  /\ turn = 0 /\ u = 0 /\ first = -1 /\ current = -1
  /\ players = <<>> /\ table = {} /\ playable_sets = <<>>
  /\ turn_payoffs = <<>> /\ play = {} /\ payoff = 0 /\ winner = -1
  /\ game_states = <<>> /\ frames = <<>>

\* deal_cards for every outcome of the shuffle
Deals == {Deal([i \in {A, B} |-> NewPlayer], cards, num_hand) : cards \in Shuffles(num_cards)}

\* reset(), with the shuffle drawn: turn, u, players, table, turn_payoffs,
\* deal_cards, find_first_player (min() of an empty hand raises ValueError),
\* find_playable_sets
Reset ==
  \E d \in Deals :
    LET hA == d.players[A].hand
        hB == d.players[B].hand
    IN  IF change_first /\ (hA = {} \/ hB = {})
        THEN /\ pc' = "ValueError"
             /\ turn' = 1 /\ u' = 0 /\ players' = d.players /\ table' = d.table
             /\ turn_payoffs' = <<>>
             /\ UNCHANGED <<first, current, playable_sets>>
        ELSE LET f == IF change_first THEN (IF Min(hA) < Min(hB) THEN A ELSE B) ELSE A
                 g == [players |-> d.players, table |-> d.table, u |-> 0, turn |-> 1,
                       current |-> f, first |-> f, playable_sets |-> <<>>]
             IN  /\ SetGame([g EXCEPT !.playable_sets = FindPlayableSets(g)])
                 /\ turn_payoffs' = <<>>
                 /\ pc' = "simulate"

\* Game.__init__
GameInit ==
  /\ pc = "new"
  /\ IF num_cards # num_hand * 2 + num_table
     THEN /\ pc' = "exit"
          /\ UNCHANGED <<gamevars, turn_payoffs>>
     ELSE Reset
  /\ UNCHANGED <<cfgvars, play, payoff, winner, game_states, frames>>

\* ---------------------------------------------------------------- simulate
\* the first item of the move table whose key contains card, else ({card}, 0)
RandomMove(g, card) ==
  LET ps == g.playable_sets
      hits == {n \in 1..Len(ps) : card \in ps[n].k}
  IN  IF hits # {} THEN ps[Min(hits)] ELSE [k |-> {card}, v |-> 0]

RECURSIVE GreedyScanAnyMove(_, _, _, _)
\* mutant: the can_play_move test is dropped
GreedyScanAnyMove(g, n, max_move, max_payoff) ==
  IF n > Len(g.playable_sets) THEN [k |-> max_move, v |-> max_payoff]
  ELSE LET it == g.playable_sets[n]
       IN  IF it.v > max_payoff
           THEN GreedyScanAnyMove(g, n + 1, it.k, it.v)
           ELSE GreedyScanAnyMove(g, n + 1, max_move, max_payoff)

RECURSIVE GreedyScan(_, _, _, _)
\* the loop of greedy_play over the items from index n on
GreedyScan(g, n, max_move, max_payoff) ==
  IF n > Len(g.playable_sets) THEN [k |-> max_move, v |-> max_payoff]
  ELSE LET it == g.playable_sets[n]
       IN  IF CanPlayMove(g.players[g.current], it.k) /\ it.v > max_payoff
           THEN GreedyScan(g, n + 1, it.k, it.v)
           ELSE GreedyScan(g, n + 1, max_move, max_payoff)

\* greedy_play once get_random_card has returned card
GreedyMove(g, card) == GreedyScan(g, 1, {card}, 0)

\* simulate: the loop ends, get_winner
SimulateEnd ==
  /\ pc = "simulate"
  /\ IsOver(Game)
  /\ winner' = GetWinner(Game)
  /\ pc' = "done"
  /\ UNCHANGED <<cfgvars, gamevars, turn_payoffs, play, payoff, game_states, frames>>

\* simulate: random_play (rand.choice of an empty list raises IndexError)
RandomPlay ==
  /\ pc = "simulate"
  /\ ~IsOver(Game)
  /\ strategies[current] = RANDOM
  /\ IF IsHandEmpty(players[current])
     THEN pc' = "IndexError" /\ UNCHANGED <<play, payoff>>
     ELSE \E card \in players[current].hand :
            LET m == RandomMove(Game, card)
            IN  play' = m.k /\ payoff' = m.v /\ pc' = "apply"
  /\ UNCHANGED <<cfgvars, gamevars, turn_payoffs, winner, game_states, frames>>

\* simulate: greedy_play
GreedyPlay ==
  /\ pc = "simulate"
  /\ ~IsOver(Game)
  /\ strategies[current] = GREEDY
  /\ IF IsHandEmpty(players[current])
     THEN pc' = "IndexError" /\ UNCHANGED <<play, payoff>>
     ELSE \E card \in players[current].hand :
            LET m == GreedyMove(Game, card)
            IN  play' = m.k /\ payoff' = m.v /\ pc' = "apply"
  /\ UNCHANGED <<cfgvars, gamevars, turn_payoffs, winner, game_states, frames>>

\* simulate: the rest of the loop body once the strategy returned (play, payoff)
ApplyMove ==
  /\ pc = "apply"
  /\ LET g == Advance(UpdateTable(UpdatePlayers(Game, play), play), payoff)
     IN  SetGame(g) /\ turn_payoffs' = Append(turn_payoffs, g.u)
  /\ pc' = "simulate"
  /\ UNCHANGED <<cfgvars, play, payoff, winner, game_states, frames>>

\* multiple_simulate: reset() after a simulation returned; simulate's locals
\* (play, payoff, winner) are gone with its activation
MultipleSimulateReset ==
  /\ pc = "done"
  /\ Reset
  /\ play' = {} /\ payoff' = 0 /\ winner' = -1
  /\ UNCHANGED <<cfgvars, game_states, frames>>

\* ----------------------------------------------------------------- minimax
\* inf + v = inf
AddInf(x, v) == IF x = PosInf \/ x = NegInf THEN x ELSE x + v

\* mutant: the terminal test looks at the depth only
NewFrameDepthOnly(g, alpha, beta, ngs) ==
  LET terminal == ngs >= depth
      maximizing == (g.turn % 2 = 0)
  IN  [terminal |-> terminal,
       maximizing_player |-> maximizing,
       items |-> g.playable_sets,
       i |-> 1,
       minimax_move |-> {},
       minimax_payoff |-> IF terminal THEN 0 ELSE IF maximizing THEN NegInf ELSE PosInf,
       alpha |-> alpha, beta |-> beta,
       pruned |-> FALSE,
       k |-> {}, v |-> 0,
       entry |-> g, entry_len |-> ngs]

\* entry of minimax(game_states, alpha, beta) in game g with ngs snapshots:
\* the terminal test and the initialisation of the locals.  entry and
\* entry_len record the state at the call (history, not program state).
NewFrame(g, alpha, beta, ngs) ==
  LET terminal == IsOver(g) \/ ngs >= depth
      maximizing == (g.turn % 2 = 0)
  IN  [terminal |-> terminal,
       maximizing_player |-> maximizing,
       items |-> g.playable_sets,
       i |-> 1,
       minimax_move |-> {},
       minimax_payoff |-> IF terminal THEN 0 ELSE IF maximizing THEN NegInf ELSE PosInf,
       alpha |-> alpha, beta |-> beta,
       pruned |-> FALSE,
       k |-> {}, v |-> 0,
       entry |-> g, entry_len |-> ngs]

\* mutant: the loop does not filter by can_play_move
NextPlayableNoFilter(fr, g) == IF fr.i <= Len(fr.items) THEN fr.i ELSE 0

\* index of the next item of fr's loop that the current player can play, 0 if none
NextPlayable(fr, g) ==
  LET c == {n \in fr.i..Len(fr.items) : CanPlayMove(g.players[g.current], fr.items[n].k)}
  IN  IF c = {} THEN 0 ELSE Min(c)

\* the activation fr is about to return
Finished(fr, g) == fr.terminal \/ fr.pruned \/ NextPlayable(fr, g) = 0

Top == frames[Len(frames)]

\* mutant: the minimizing layer adds the move's payoff instead of subtracting
AfterCallMinAdds(fr, next_payoff) ==
  LET pay == AddInf(next_payoff, fr.v)
  IN  IF fr.maximizing_player
      THEN LET better == pay > fr.minimax_payoff
               mp == IF better THEN pay ELSE fr.minimax_payoff
               al == IF fr.alpha >= mp THEN fr.alpha ELSE mp
           IN  [fr EXCEPT !.minimax_payoff = mp,
                          !.minimax_move = IF better THEN fr.k ELSE @,
                          !.alpha = al,
                          !.pruned = (fr.beta <= al)]
      ELSE LET better == pay < fr.minimax_payoff
               mp == IF better THEN pay ELSE fr.minimax_payoff
               be == IF fr.beta <= mp THEN fr.beta ELSE mp
           IN  [fr EXCEPT !.minimax_payoff = mp,
                          !.minimax_move = IF better THEN fr.k ELSE @,
                          !.beta = be,
                          !.pruned = (be <= fr.alpha)]

\* mutant: every candidate replaces the best move (no comparison)
AfterCallAlwaysTakes(fr, next_payoff) ==
  IF fr.maximizing_player
  THEN LET pay == AddInf(next_payoff, fr.v)
           al == IF fr.alpha >= pay THEN fr.alpha ELSE pay
       IN  [fr EXCEPT !.minimax_payoff = pay, !.minimax_move = fr.k,
                      !.alpha = al, !.pruned = (fr.beta <= al)]
  ELSE LET pay == AddInf(next_payoff, -fr.v)
           be == IF fr.beta <= pay THEN fr.beta ELSE pay
       IN  [fr EXCEPT !.minimax_payoff = pay, !.minimax_move = fr.k,
                      !.beta = be, !.pruned = (be <= fr.alpha)]

\* lines 346-359 / 380-393: the caller fr takes the child's value, pops and
\* rolls back, updates its bound and decides on the break
AfterCall(fr, next_payoff) ==
  IF fr.maximizing_player
  THEN LET pay == AddInf(next_payoff, fr.v)
           better == pay > fr.minimax_payoff
           mp == IF better THEN pay ELSE fr.minimax_payoff
           al == IF fr.alpha >= mp THEN fr.alpha ELSE mp
       IN  [fr EXCEPT !.minimax_payoff = mp,
                      !.minimax_move = IF better THEN fr.k ELSE @,
                      !.alpha = al,
                      !.pruned = (fr.beta <= al)]
  ELSE LET pay == AddInf(next_payoff, -fr.v)
           better == pay < fr.minimax_payoff
           mp == IF better THEN pay ELSE fr.minimax_payoff
           be == IF fr.beta <= mp THEN fr.beta ELSE mp
       IN  [fr EXCEPT !.minimax_payoff = mp,
                      !.minimax_move = IF better THEN fr.k ELSE @,
                      !.beta = be,
                      !.pruned = (be <= fr.alpha)]

\* simulate: minimax_play calls minimax([], -inf, +inf)
MinimaxPlay ==
  /\ pc = "simulate"
  /\ ~IsOver(Game)
  /\ strategies[current] = MINIMAX
  /\ turn < MaxTurn
  /\ game_states' = <<>>
  /\ frames' = <<NewFrame(Game, NegInf, PosInf, 0)>>
  /\ pc' = "minimax"
  /\ UNCHANGED <<cfgvars, gamevars, turn_payoffs, play, payoff, winner>>

\* one iteration of the loop up to the recursive call: snapshot, update, call
MinimaxDescend ==
  /\ pc = "minimax"
  /\ ~Finished(Top, Game)
  /\ LET n == NextPlayable(Top, Game)
         it == Top.items[n]
         fr == [Top EXCEPT !.minimax_move = IF @ = {} THEN it.k ELSE @,
                           !.k = it.k, !.v = it.v, !.i = n + 1]
         gss == Append(game_states, GameStateInit(Game, it.k, it.v))
         g == Update(Game, it.k, it.v)
     IN  /\ game_states' = gss
         /\ SetGame(g)
         /\ frames' = Append([frames EXCEPT ![Len(frames)] = fr],
                             NewFrame(g, fr.alpha, fr.beta, Len(gss)))
  /\ UNCHANGED <<cfgvars, pc, turn_payoffs, play, payoff, winner>>

\* a call returns to the minimax activation that made it
MinimaxReturn ==
  /\ pc = "minimax"
  /\ Len(frames) > 1
  /\ Finished(Top, Game)
  /\ LET caller == frames[Len(frames) - 1]
         gs == game_states[Len(game_states)]
     IN  /\ frames' = Append(SubSeq(frames, 1, Len(frames) - 2),
                             AfterCall(caller, Top.minimax_payoff))
         /\ game_states' = SubSeq(game_states, 1, Len(game_states) - 1)
         /\ SetGame(Rollback(Game, gs))
  /\ UNCHANGED <<cfgvars, pc, turn_payoffs, play, payoff, winner>>

\* the outermost call returns to minimax_play, which recomputes the payoff
MinimaxPlayReturn ==
  /\ pc = "minimax"
  /\ Len(frames) = 1
  /\ Finished(Top, Game)
  /\ play' = Top.minimax_move
  /\ payoff' = CalculateMovePayoff(Game, Top.minimax_move)
  /\ frames' = <<>>
  /\ pc' = "apply"
  /\ UNCHANGED <<cfgvars, gamevars, turn_payoffs, winner, game_states>>

Next ==
  \/ GameInit
  \/ SimulateEnd
  \/ RandomPlay
  \/ GreedyPlay
  \/ MinimaxPlay
  \/ MinimaxDescend
  \/ MinimaxReturn
  \/ MinimaxPlayReturn
  \/ ApplyMove
  \/ MultipleSimulateReset

Spec == Init /\ [][Next]_vars

\* ------------------------------------------------------------------ claims
Cards == 2..(num_cards + 1)
Constructed == pc \notin {"new", "exit", "ValueError"}
Hand(i) == players[i].hand
StackSet(i) == SeqToSet(players[i].primes) \cup SeqToSet(players[i].composites)
\* the items of the move table the current player of g can play
PlayableItems(g) ==
  {n \in 1..Len(g.playable_sets) :
     CanPlayMove(g.players[g.current], g.playable_sets[n].k)}

\* C1: in every state of a constructed game, applying any playable move of the
\* move table with update() and then rollback() with the GameState taken just
\* before the move gives back the same hands, stacks (with their order),
\* table, move table, u, turn and active player.
C1_RollbackRestores ==
  Constructed =>
    \A n \in PlayableItems(Game) :
      LET it == playable_sets[n]
          gs == GameStateInit(Game, it.k, it.v)
      IN  Rollback(Update(Game, it.k, it.v), gs) = Game

\* a search state right after the rollback of a capture that had changed the
\* stacks, the table, u, the turn and the active player
C1_Witness ==
  /\ pc = "minimax"
  /\ Top.i > 1 /\ Cardinality(Top.k) = 3 /\ Top.v > 0
  /\ Len(game_states) = Len(frames) - 1
  /\ Update(Game, Top.k, Top.v).players # players
  /\ Update(Game, Top.k, Top.v).table # table

RECURSIVE PlainMinimax(_, _), PlainLoop(_, _, _, _, _)
\* the recursion of minimax with the pruning break removed (no alpha, no
\* beta): the reference C2 compares the search with
PlainMinimax(g, ngs) ==
  IF IsOver(g) \/ ngs >= depth THEN [move |-> {}, payoff |-> 0]
  ELSE PlainLoop(g, ngs, 1, {}, IF g.turn % 2 = 0 THEN NegInf ELSE PosInf)

PlainLoop(g, ngs, n, move, pay) ==
  IF n > Len(g.playable_sets) THEN [move |-> move, payoff |-> pay]
  ELSE LET it == g.playable_sets[n]
       IN  IF ~CanPlayMove(g.players[g.current], it.k)
           THEN PlainLoop(g, ngs, n + 1, move, pay)
           ELSE LET child == PlainMinimax(Update(g, it.k, it.v), ngs + 1)
                    maxi == (g.turn % 2 = 0)
                    cand == AddInf(child.payoff, IF maxi THEN it.v ELSE -it.v)
                    better == IF maxi THEN cand > pay ELSE cand < pay
                IN  PlainLoop(g, ngs, n + 1,
                              IF better \/ move = {} THEN it.k ELSE move,
                              IF better THEN cand ELSE pay)

\* the move minimax_play just returned to simulate
MinimaxReturned == pc = "apply" /\ strategies[current] = MINIMAX

\* C2: with num_cards = 4, num_hand = 1, num_table = 2, for every deal and
\* every depth >= 1, the move the alpha-beta search returns to simulate, at
\* the first turn and at every later turn of play, is the move plain minimax
\* (same recursion, same order, no break) selects in that state.
C2_AlphaBetaMatchesPlain ==
  (MinimaxReturned /\ num_cards = 4 /\ num_hand = 1 /\ num_table = 2 /\ depth >= 1) =>
    play = PlainMinimax(Game, 0).move

\* a search of the small deck at depth 2 that returned a capture
C2_Witness ==
  /\ MinimaxReturned /\ num_cards = 4 /\ num_hand = 1 /\ num_table = 2
  /\ depth >= 2 /\ Cardinality(play) = 3
  /\ play = PlainMinimax(Game, 0).move

\* C3 as claimed: every card is in at most one of a hand, the table, a
\* capture stack.
C3_AtMostOnePlace ==
  Constructed =>
    \A c \in Cards :
      Cardinality({i \in {A, B} : c \in Hand(i)})
        + (IF c \in table THEN 1 ELSE 0)
        + Cardinality({i \in {A, B} : c \in StackSet(i)}) <= 1

\* C3 amended: a card in a hand is in no other hand, not on the table and in
\* no capture stack, and no card is in two capture stacks; a card of a capture
\* stack may also lie on the table.
C3_HandCardsNowhereElse ==
  Constructed =>
    /\ \A c \in Cards :
         /\ Cardinality({i \in {A, B} : c \in Hand(i)}) <= 1
         /\ (\E i \in {A, B} : c \in Hand(i)) =>
              (c \notin table /\ \A j \in {A, B} : c \notin StackSet(j))
         /\ Cardinality({i \in {A, B} : c \in StackSet(i)}) <= 1
    /\ \A i \in {A, B} :
         SeqToSet(players[i].primes) \cap SeqToSet(players[i].composites) = {}

\* after a capture, with a stack card on the table and cards still in hand
C3_Witness ==
  /\ pc = "simulate" /\ turn > 1
  /\ \E i \in {A, B} : StackSet(i) \cap table # {}
  /\ \E i \in {A, B} : Hand(i) # {}

\* C5: during a search every activation of minimax that is at its loop head
\* or about to return (the innermost one) sees exactly the game state and the
\* number of snapshots it was entered with, also after an iteration that ended
\* with the pruning break; one snapshot is outstanding per pending call; and
\* minimax_play hands its move to simulate with no snapshot left.
C5_SnapshotDiscipline ==
  /\ pc = "minimax" =>
       /\ Len(frames) >= 1
       /\ Len(game_states) = Len(frames) - 1
       /\ Top.entry_len = Len(game_states)
       /\ Top.entry = Game
       /\ \A d \in 1..Len(frames) : frames[d].entry_len = d - 1
       /\ \A d \in 1..(Len(frames) - 1) :
            /\ game_states[d].players = frames[d].entry.players
            /\ game_states[d].table = frames[d].entry.table
            /\ game_states[d].playable_sets = frames[d].entry.playable_sets
            /\ game_states[d].u = frames[d].entry.u
            /\ game_states[d].turn = frames[d].entry.turn
            /\ game_states[d].current = frames[d].entry.current
  /\ pc # "minimax" => (frames = <<>> /\ game_states = <<>>)

\* an activation that has just pruned: the break was taken after the rollback
C5_Witness ==
  /\ pc = "minimax"
  /\ Top.pruned /\ Top.i > 1 /\ Top.i <= Len(Top.items)
  /\ NextPlayable(Top, Game) # 0

Coherent == num_cards = num_hand * 2 + num_table
BothGreedy == strategies[A] = GREEDY /\ strategies[B] = GREEDY
CardsInHands == Cardinality(Hand(A)) + Cardinality(Hand(B))

\* C4: with both players greedy, simulate never raises, every turn takes
\* exactly one card out of the hands (so the loop is left after 2*num_hand
\* turns: the cards in hand are 2*num_hand - (turn - 1), the loop continues
\* only while some are left), and when simulate has returned the turn counter
\* is 2*num_hand + 1, turn_payoffs has 2*num_hand entries, both hands are
\* empty and the winner is -1, 0 or 1.
C4_GreedyTerminates ==
  (BothGreedy /\ Constructed) =>
    /\ pc \in {"simulate", "apply", "done"}
    /\ CardsInHands = 2 * num_hand - (turn - 1)
    /\ Len(turn_payoffs) = turn - 1
    /\ turn <= 2 * num_hand + 1
    /\ pc = "apply" => (turn <= 2 * num_hand /\ Cardinality(play \cap Hand(current)) = 1)
    /\ pc = "done" =>
         /\ turn = 2 * num_hand + 1
         /\ Len(turn_payoffs) = 2 * num_hand
         /\ Hand(A) = {} /\ Hand(B) = {}
         /\ winner \in {-1, 0, 1}

\* a greedy game of two cards each has returned after four turns
C4_Witness ==
  /\ BothGreedy /\ pc = "done" /\ num_hand = 2
  /\ turn = 5 /\ Len(turn_payoffs) = 4 /\ winner \in {0, 1}

\* what C6 asks of a move returned by minimax_play
NonEmptyPlayableKey ==
  /\ play # {}
  /\ \E n \in 1..Len(playable_sets) : playable_sets[n].k = play
  /\ play \cap Hand(current) # {}

C7_NoEmptyHandAccess == Coherent => pc \notin {"ValueError", "IndexError"}

\* C8: is_over() holds exactly when both hands are empty; while it holds no
\* move is applied (every application of a move adds 1 to the turn counter:
\* the turn never grows, and the game state changes only by the rollback to
\* the caller's snapshot), simulate is at its exit, and a minimax activation
\* entered in such a state is terminal with the value ({}, 0).
C8_Inv ==
  Constructed =>
    /\ IsOver(Game) <=> (Hand(A) = {} /\ Hand(B) = {})
    /\ IsOver(Game) =>
         /\ pc \in {"simulate", "done", "minimax"}
         /\ pc = "minimax" =>
              (Top.terminal /\ Top.minimax_move = {} /\ Top.minimax_payoff = 0
               /\ Finished(Top, Game))

\* C8 (whole claim): the state part above in every state, and no move applied
\* by any step taken while is_over() holds.
C8_NoMoveOnceOver ==
  /\ []C8_Inv
  /\ [][(Constructed /\ IsOver(Game) /\ pc # "done") =>
          \/ UNCHANGED gamevars
          \/ /\ pc = "minimax" /\ Len(game_states) >= 1
             /\ turn' = turn - 1
             /\ Game' = Rollback(Game, game_states[Len(game_states)])]_vars

\* the search reached the end of the game below the depth bound
C8_Witness ==
  /\ pc = "minimax" /\ IsOver(Game)
  /\ Len(game_states) < depth /\ Top.terminal /\ num_hand >= 1

\* the states right after reset() dealt the cards
Dealt == (pc = "simulate" /\ turn = 1 /\ turn_payoffs = <<>>) \/ pc = "ValueError"

\* C9: after dealing, the two hands and the table are pairwise disjoint,
\* their union is 2..num_cards+1, each hand has num_hand cards, the table
\* num_table cards, and the four capture stacks are empty.
C9_DealPartition ==
  Dealt =>
    /\ Hand(A) \cap Hand(B) = {}
    /\ Hand(A) \cap table = {}
    /\ Hand(B) \cap table = {}
    /\ Hand(A) \cup Hand(B) \cup table = Cards
    /\ Cardinality(Hand(A)) = num_hand
    /\ Cardinality(Hand(B)) = num_hand
    /\ Cardinality(table) = num_table
    /\ \A i \in {A, B} : players[i].primes = <<>> /\ players[i].composites = <<>>

\* a deal of five cards: two each and one on the table
C9_Witness ==
  /\ Dealt /\ pc = "simulate" /\ num_cards = 5 /\ num_hand = 2
  /\ Cardinality(Hand(A) \cup Hand(B) \cup table) = 5

\* C10 as claimed: the constructor succeeds exactly when the configuration is
\* coherent, and when it is not it exits with no game state created.
C10_ConstructionIffCoherent ==
  pc # "new" =>
    /\ (pc \notin {"exit", "ValueError"}) <=> Coherent
    /\ pc = "exit" =>
         (players = <<>> /\ table = {} /\ playable_sets = <<>> /\ turn = 0)

\* the values the rules of the game derive from two cards: sum, difference,
\* product and exact quotients, kept when they are cards of the deck
Derived(c1, c2) ==
  {v \in Cards : \/ v = c1 + c2
                 \/ v = c1 - c2 \/ v = c2 - c1
                 \/ v = c1 * c2
                 \/ c1 = v * c2 \/ c2 = v * c1}

Score(c) == IF IsPrime(c) THEN PRIME_SCORE ELSE COMPOSITE_SCORE
\* the cards of p's capture stack of the type of c
Matching(p, c) == SeqToSet(IF IsPrime(c) THEN p.primes ELSE p.composites)

RECURSIVE LegsSum(_, _)
\* sum over the cards of S of the "obtained" leg plus the "stolen" leg
LegsSum(g, S) ==
  IF S = {} THEN 0
  ELSE LET c == CHOOSE x \in S : TRUE
           me == g.players[g.current]
           opp == g.players[1 - g.current]
       IN  (IF c \notin Matching(me, c) THEN Score(c) ELSE 0)
           + (IF c \in Matching(opp, c) THEN Score(c) ELSE 0)
           + LegsSum(g, S \ {c})

\* payoffOf: what a move is worth to the active player of g
PayoffOf(g, move) == IF Cardinality(move) = 3 THEN LegsSum(g, move) ELSE 0

MoveKeys == {playable_sets[n].k : n \in 1..Len(playable_sets)}

\* C11: in every state of a constructed game the move table has a key for
\* every set of three distinct cards made of two table cards and a value
\* derived from them, has the singleton {c} with payoff 0 for every card c of
\* the active player's hand, and stores with every key the payoff of that
\* move for the active player against the current stacks.
C11_MoveTableComplete ==
  Constructed =>
    /\ \A c1 \in table : \A c2 \in table \ {c1} :
         \A c3 \in Derived(c1, c2) \ {c1, c2} : {c1, c2, c3} \in MoveKeys
    /\ \A c \in Hand(current) :
         \E n \in 1..Len(playable_sets) :
           playable_sets[n].k = {c} /\ playable_sets[n].v = 0
    /\ \A n \in 1..Len(playable_sets) :
         playable_sets[n].v = PayoffOf(Game, playable_sets[n].k)

\* a move table with a capture worth points next to the hand's singletons,
\* after a player has already captured
C11_Witness ==
  /\ Constructed /\ turn > 1 /\ Hand(current) # {}
  /\ \E i \in {A, B} : StackSet(i) # {}
  /\ \E n \in 1..Len(playable_sets) :
       Cardinality(playable_sets[n].k) = 3 /\ playable_sets[n].v > 0

\* C12: in every state of a constructed game every key of the move table has
\* exactly one or exactly three distinct cards, all of them cards of the deck
\* 2..num_cards+1.
C12_KeysWellFormed ==
  Constructed =>
    \A k \in MoveKeys : Cardinality(k) \in {1, 3} /\ k \subseteq Cards

\* 2 and 4 lie on the table: 4 / 2 and 4 - 2 derive the card 2 again, and
\* the set {2, 4} is not a key
C12_Witness ==
  /\ Constructed /\ {2, 4} \subseteq table
  /\ 2 \in SeqToSet(FindPlayableCards(2, 4))
  /\ \E k \in MoveKeys : Cardinality(k) = 3 /\ {2, 4} \subseteq k

\* C13: in every state of a constructed game and for every set of cards of
\* the deck, calculate_move_payoff gives 0 when the set does not have exactly
\* three cards, and otherwise the sum over its cards of the card's score (2
\* for a prime, 1 for a composite) when the active player's stack of the
\* card's type lacks the card, plus the score once more when the opponent's
\* stack of that type holds the card.
C13_PayoffTwoLegs ==
  Constructed =>
    \A move \in SUBSET Cards :
      CalculateMovePayoff(Game, move) =
        IF Cardinality(move) # 3 THEN 0 ELSE LegsSum(Game, move)

\* the move table offers a capture with a card that scores on both legs: the
\* opponent's stack holds it and the active player's does not
C13_Witness ==
  /\ Constructed
  /\ \E n \in 1..Len(playable_sets) :
       LET k == playable_sets[n].k
       IN  /\ Cardinality(k) = 3
           /\ \E c \in k : /\ c \in Matching(players[Other(current)], c)
                           /\ c \notin Matching(players[current], c)
           /\ playable_sets[n].v = CalculateMovePayoff(Game, k)
           /\ playable_sets[n].v > 2

\* C14: when simulate has returned, its value is the index of the first
\* player if u > 0, the index of the other player if u < 0 and -1 if u = 0,
\* hence one of -1, 0, 1.
C14_WinnerBySignOfU ==
  pc = "done" =>
    /\ u > 0 => winner = first
    /\ u < 0 => winner = 1 - first
    /\ u = 0 => winner = -1
    /\ winner \in {-1, 0, 1}

\* a simulation that ends with the second player ahead
C14_Witness == pc = "done" /\ u < 0 /\ winner = 1 - first /\ turn > 1

\* a step that applies a move: the loop body of simulate after the strategy
\* returned, or update() called by the search
MoveApplied == pc = "apply" \/ (pc = "minimax" /\ Len(frames') = Len(frames) + 1)
\* the move and the payoff such a step applies
AppliedMove ==
  IF pc = "apply" THEN play ELSE game_states'[Len(game_states')].played_set
AppliedPayoff ==
  IF pc = "apply" THEN payoff ELSE game_states'[Len(game_states')].played_payoff

\* the move table is the one of the active player: the singleton keys are the
\* cards of the active hand, the 3-card keys are built on pairs of table
\* cards, and the payoffs are the active player's
MoveTableOfActive ==
  /\ {k \in MoveKeys : Cardinality(k) = 1} = {{c} : c \in Hand(current)}
  /\ {k \in MoveKeys : Cardinality(k) # 1} =
       {{c1, c2, c3} : <<c1, c2, c3>> \in
          {t \in table \X table \X Cards :
             t[1] # t[2] /\ t[3] \in Derived(t[1], t[2]) \ {t[1], t[2]}}}
  /\ \A n \in 1..Len(playable_sets) :
       playable_sets[n].v = PayoffOf(Game, playable_sets[n].k)

\* C15: every step that applies a move with payoff p, in simulate as in the
\* search, adds p to u when the acting player is the first player and
\* subtracts it otherwise, increases turn by exactly 1, makes the other
\* player active, keeps first, and leaves the move table of the new active
\* player.
C15_ApplyMoveTransition ==
  [][MoveApplied =>
       /\ u' = u + (IF current = first THEN AppliedPayoff ELSE - AppliedPayoff)
       /\ turn' = turn + 1
       /\ current' = 1 - current
       /\ first' = first
       /\ MoveTableOfActive']_vars

\* the second player has just captured: u went down, and the first player
\* is active again with cards in hand
C15_Witness ==
  /\ pc = "simulate" /\ Len(turn_payoffs) >= 2 /\ turn = Len(turn_payoffs) + 1
  /\ turn_payoffs[Len(turn_payoffs)] < turn_payoffs[Len(turn_payoffs) - 1]
  /\ u = turn_payoffs[Len(turn_payoffs)]
  /\ current = first /\ Hand(current) # {}

\* C16: in every state of a constructed game (so after every applied move),
\* for each player, the last card of the prime stack and the last card of the
\* composite stack, when the stack is not empty, are on the table.
C16_LastCardsOnTable ==
  Constructed =>
    \A i \in {A, B} :
      /\ Len(players[i].primes) > 0 =>
           players[i].primes[Len(players[i].primes)] \in table
      /\ Len(players[i].composites) > 0 =>
           players[i].composites[Len(players[i].composites)] \in table

\* both players have captured, and one of them holds primes and composites
C16_Witness ==
  /\ pc = "simulate" /\ turn > 2
  /\ \A i \in {A, B} : StackSet(i) # {}
  /\ \E i \in {A, B} : Len(players[i].primes) > 0 /\ Len(players[i].composites) > 0
  /\ \A i \in {A, B} : LastCards(players[i]) \subseteq table

\* C17: every step that applies a singleton {c} with c in the acting player's
\* hand removes c from that hand, changes neither the opponent's hand nor any
\* of the four capture stacks, has payoff 0 and leaves u as it was, and makes
\* the table the previous table plus c.
C17_SingletonFrame ==
  [][(MoveApplied /\ Cardinality(AppliedMove) = 1 /\ AppliedMove \subseteq Hand(current)) =>
       /\ players'[current].hand = Hand(current) \ AppliedMove
       /\ players'[1 - current].hand = Hand(1 - current)
       /\ \A i \in {A, B} : /\ players'[i].primes = players[i].primes
                            /\ players'[i].composites = players[i].composites
       /\ AppliedPayoff = 0
       /\ u' = u
       /\ table' = table \cup AppliedMove]_vars

\* a card has just been discarded by a player who holds captured cards: it
\* lies on the table next to the last cards of the stacks
C17_Witness ==
  /\ pc = "simulate" /\ turn > 1
  /\ Cardinality(play) = 1 /\ play \subseteq table
  /\ play \cap (Hand(A) \cup Hand(B) \cup StackSet(A) \cup StackSet(B)) = {}
  /\ StackSet(1 - current) # {}
  /\ LastCards(players[1 - current]) \subseteq table

\* the number of places of the sequence s that hold c
Occurrences(s, c) == Cardinality({n \in 1..Len(s) : s[n] = c})
\* the last n entries of the sequence s
LastEntries(s, n) == {s[m] : m \in (Len(s) - n + 1)..Len(s)}

NoDuplicateInStacks ==
  \A i \in {A, B} :
    /\ \A c \in SeqToSet(players[i].primes) : Occurrences(players[i].primes, c) = 1
    /\ \A c \in SeqToSet(players[i].composites) :
         Occurrences(players[i].composites, c) = 1

\* C18: no capture stack ever holds a card twice; and every step that applies
\* a 3-card capture leaves each of its cards exactly once in the acting
\* player's stack of the card's type (primes or composites) and not in the
\* other one, in no stack of the opponent and in no hand, the captured primes
\* being the last entries of the acting player's prime stack and the captured
\* composites the last entries of the composite stack.
C18_CaptureToStacks ==
  /\ [](Constructed => NoDuplicateInStacks)
  /\ [][(MoveApplied /\ Cardinality(AppliedMove) = 3) =>
          LET me == players'[current]
              opp == players'[1 - current]
              pr == {c \in AppliedMove : IsPrime(c)}
              co == AppliedMove \ pr
          IN  /\ \A c \in pr : Occurrences(me.primes, c) = 1
                               /\ Occurrences(me.composites, c) = 0
              /\ \A c \in co : Occurrences(me.composites, c) = 1
                               /\ Occurrences(me.primes, c) = 0
              /\ \A c \in AppliedMove :
                   /\ Occurrences(opp.primes, c) = 0
                   /\ Occurrences(opp.composites, c) = 0
                   /\ c \notin me.hand /\ c \notin opp.hand
              /\ Len(me.primes) >= Cardinality(pr)
              /\ LastEntries(me.primes, Cardinality(pr)) = pr
              /\ Len(me.composites) >= Cardinality(co)
              /\ LastEntries(me.composites, Cardinality(co)) = co]_vars

\* a capture that stole from the opponent has just been applied: its payoff
\* is more than three cards can score on the "obtained" leg alone, and its
\* cards are in the stacks of the player who moved
C18_Witness ==
  /\ pc = "simulate" /\ turn > 2
  /\ Cardinality(play) = 3 /\ payoff > 3 * PRIME_SCORE
  /\ play \subseteq StackSet(1 - current)
  /\ play \cap StackSet(current) = {}
  /\ StackSet(current) # {}

\* what C19 asks of a move m = [k, v] in the current state
GreedyChoice(m) ==
  /\ m.k \cap Hand(current) # {}
  /\ \E n \in 1..Len(playable_sets) :
       playable_sets[n].k = m.k /\ playable_sets[n].v = m.v
  /\ \A n \in 1..Len(playable_sets) :
       playable_sets[n].k \cap Hand(current) # {} => m.v >= playable_sets[n].v
  /\ (\A n \in 1..Len(playable_sets) :
        playable_sets[n].k \cap Hand(current) # {} => playable_sets[n].v <= 0)
       => (Cardinality(m.k) = 1 /\ m.k \subseteq Hand(current) /\ m.v = 0)

\* C19: in every state of a constructed game where the active player holds a
\* card, greedy_play returns, whichever card get_random_card draws, a move
\* that meets the active hand, with the payoff the move table stores for it,
\* which no entry of the move table that meets the hand exceeds; and when no
\* such entry has a positive payoff the move is a singleton of a hand card
\* with payoff 0. The move simulate is about to apply for a greedy player is
\* such a move.
C19_GreedyPicksBest ==
  (Constructed /\ Hand(current) # {}) =>
    /\ \A card \in Hand(current) : GreedyChoice(GreedyMove(Game, card))
    /\ (pc = "apply" /\ strategies[current] = GREEDY) =>
         GreedyChoice([k |-> play, v |-> payoff])

\* greedy_play returned a capture although the move table holds an entry
\* worth more that the active player cannot play
C19_Witness ==
  /\ pc = "apply" /\ strategies[current] = GREEDY
  /\ Cardinality(play) = 3 /\ payoff > 0
  /\ \E n \in 1..Len(playable_sets) :
       /\ playable_sets[n].k \cap Hand(current) = {}
       /\ playable_sets[n].v > payoff

\* C20: for any two different cards c1, c2 of the deck 2..num_cards+1,
\* find_playable_cards(c1, c2) returns exactly those of c1 + c2, |c1 - c2|,
\* c1 * c2, c1 / c2 (when c2 divides c1) and c2 / c1 (when c1 divides c2)
\* that are cards of the deck, and nothing else.
C20_PlayableCardsExact ==
  Constructed =>
    \A c1 \in Cards : \A c2 \in Cards \ {c1} :
      LET r == FindPlayableCards(c1, c2)
          values == {c1 + c2, IF c1 >= c2 THEN c1 - c2 ELSE c2 - c1, c1 * c2}
                      \cup {q \in 1..c1 : q * c2 = c1}
                      \cup {q \in 1..c2 : q * c1 = c2}
      IN  /\ SeqToSet(r) = values \cap Cards
          /\ SeqToSet(r) = Derived(c1, c2)

\* 2 and 6 lie on the table of a six-card deck: the difference 4 and the
\* exact quotient 3 are derived, both captures are in the move table, and the
\* inexact quotient of 5 by 2 is not derived
C20_Witness ==
  /\ Constructed /\ num_cards = 5 /\ {2, 6} \subseteq table
  /\ FindPlayableCards(2, 6) = <<4, 3>>
  /\ {2, 3, 6} \in MoveKeys /\ {2, 4, 6} \in MoveKeys
  /\ FindPlayableCards(5, 2) = <<3>>

\* 2 per card of the prime stack plus 1 per card of the composite stack
StackScore(p) == PRIME_SCORE * Len(p.primes) + COMPOSITE_SCORE * Len(p.composites)

\* C21: in every state of a constructed game, in play and inside the search,
\* u is the stack score of the first player minus the stack score of the
\* other player; and the winner simulate reports is the player with the
\* larger stack score, -1 when the scores are equal.
C21_PayoffIsStackDifference ==
  Constructed =>
    /\ u = StackScore(players[first]) - StackScore(players[1 - first])
    /\ pc = "done" =>
         /\ winner \in {A, B} =>
              StackScore(players[winner]) > StackScore(players[1 - winner])
         /\ winner = -1 => StackScore(players[A]) = StackScore(players[B])

\* a simulation won by the second player after both players have captured
C21_Witness ==
  /\ pc = "done" /\ winner = 1 - first /\ u < 0
  /\ \A i \in {A, B} : StackSet(i) # {}

\* the number of the five places that hold card c: the hand of A, the hand of
\* B, the stacks of A, the stacks of B, the table outside every stack
Places(c) ==
  (IF c \in Hand(A) THEN 1 ELSE 0) + (IF c \in Hand(B) THEN 1 ELSE 0)
  + (IF c \in StackSet(A) THEN 1 ELSE 0) + (IF c \in StackSet(B) THEN 1 ELSE 0)
  + (IF c \in table \ (StackSet(A) \cup StackSet(B)) THEN 1 ELSE 0)

\* C23: in every state of a constructed game every card of 2..num_cards+1 is
\* in exactly one of the five places; and no card is in both players'
\* stacks, the hands are disjoint, a card of a hand is neither on the table
\* nor in a stack, and nothing but cards of the deck is anywhere.
C23_ExactlyOnePlace ==
  Constructed =>
    /\ \A c \in Cards : Places(c) = 1
    /\ StackSet(A) \cap StackSet(B) = {}
    /\ Hand(A) \cap Hand(B) = {}
    /\ (Hand(A) \cup Hand(B)) \cap (table \cup StackSet(A) \cup StackSet(B)) = {}
    /\ Hand(A) \cup Hand(B) \cup table \cup StackSet(A) \cup StackSet(B) \subseteq Cards

\* in the course of a game: a card still in a hand, captured cards, a stack
\* card on the table and a card on the table that is in no stack
C23_Witness ==
  /\ pc = "simulate" /\ turn > 2
  /\ Hand(A) \cup Hand(B) # {}
  /\ StackSet(A) \cup StackSet(B) # {}
  /\ table \cap (StackSet(A) \cup StackSet(B)) # {}
  /\ table \ (StackSet(A) \cup StackSet(B)) # {}

\* every entry the active player can play holds exactly one card of the
\* active hand, and a 3-card entry has its two other cards on the table
PlayableEntriesWellFormed ==
  \A n \in PlayableItems(Game) :
    LET k == playable_sets[n].k
    IN  /\ Cardinality(k \cap Hand(current)) = 1
        /\ Cardinality(k) = 3 => (k \ Hand(current)) \subseteq table

\* every step that applies a move takes exactly one card from the acting
\* player's hand and leaves the opponent's hand alone
MoveTakesOneHandCard ==
  MoveApplied =>
    /\ players'[current].hand \subseteq Hand(current)
    /\ Cardinality(players'[current].hand) = Cardinality(Hand(current)) - 1
    /\ players'[1 - current].hand = Hand(1 - current)

\* C24 as claimed: in every state of a constructed game the playable entries
\* of the move table hold exactly one hand card (and two table cards when
\* they are captures), the active player's hand is not empty while the game
\* is not over, and every applied move shrinks the acting player's hand by
\* exactly one card and leaves the opponent's hand unchanged.
C24_OneHandCardPerMove ==
  /\ [](Constructed =>
          /\ PlayableEntriesWellFormed
          /\ ~IsOver(Game) => Hand(current) # {})
  /\ [][MoveTakesOneHandCard]_vars

PlayablePayoffs == {playable_sets[n].v : n \in PlayableItems(Game)}

\* C26: with depth = 1, when minimax_play has returned in a state where the
\* active player holds a card, on an even turn as on an odd one, its payoff
\* is the payoff greedy_play returns in that state whichever card
\* get_random_card draws, and it is the largest payoff of the move-table
\* entries the active player can play.
C26_DepthOneIsGreedy ==
  (MinimaxReturned /\ depth = 1 /\ Hand(current) # {}) =>
    /\ \A card \in Hand(current) : payoff = GreedyMove(Game, card).v
    /\ payoff \in PlayablePayoffs
    /\ \A v \in PlayablePayoffs : payoff >= v

\* a depth-1 search on an odd turn (minimizing layer) returned a capture
\* while the active player could also have discarded
C26_Witness ==
  /\ MinimaxReturned /\ depth = 1 /\ turn % 2 = 1
  /\ Cardinality(play) = 3 /\ payoff > 0
  /\ 0 \in PlayablePayoffs

\* ------------------------------------------------- the six-card deck, depth 4
\* Game(6, 2, 2, change_first, 4) played by two minimax players: the smallest
\* configuration in which a search looks four moves ahead
DeepHand == 2
DeepTable == 2
DeepDepth == 4

InitDeep ==
  /\ num_hand = DeepHand
  /\ num_table = DeepTable
  /\ num_cards = 2 * DeepHand + DeepTable
  /\ change_first \in BOOLEAN
  /\ depth = DeepDepth
  /\ strategies = [i \in {A, B} |-> MINIMAX]
  /\ pc = "new"
  /\ turn = 0 /\ u = 0 /\ first = -1 /\ current = -1
  /\ players = <<>> /\ table = {} /\ playable_sets = <<>>
  /\ turn_payoffs = <<>> /\ play = {} /\ payoff = 0 /\ winner = -1
  /\ game_states = <<>> /\ frames = <<>>

NextDeep ==
  \/ GameInit
  \/ SimulateEnd
  \/ MinimaxPlay
  \/ MinimaxDescend
  \/ MinimaxReturn
  \/ MinimaxPlayReturn
  \/ ApplyMove
  \/ MultipleSimulateReset

SpecDeep == InitDeep /\ [][NextDeep]_vars

\* the outermost minimax activation is about to return to minimax_play
SearchDone == pc = "minimax" /\ Len(frames) = 1 /\ Finished(Top, Game)

\* C22 as claimed: whenever a search of depth >= 1 started in a state of play
\* returns, its move and its value are the move and the value of the same
\* recursion without the pruning break.
C22_PruningPreservesResult ==
  (SearchDone /\ depth >= 1) =>
    /\ Top.minimax_move = PlainMinimax(Game, 0).move
    /\ Top.minimax_payoff = PlainMinimax(Game, 0).payoff

====
